---- MODULE Spec2Model ----
(***************************************************************************)
(* Model of the bus-ticket booking workflow of                             *)
(* src/busTicketing_allscenarious.py: the module-level dictionaries        *)
(* ALLOWED_CUSTOMERS, ROUTES and SESSIONS and the request handlers that    *)
(* read and write them.  Python dictionaries are functions whose DOMAIN is *)
(* the set of keys present; lists are sequences.  Every handler call       *)
(* records the request it served and the response it produced.             *)
(***************************************************************************)
EXTENDS Integers, Sequences, FiniteSets, TLC

VARIABLES SESSIONS, ROUTES, ALLOWED_CUSTOMERS, inflight, request, response

vars == <<SESSIONS, ROUTES, ALLOWED_CUSTOMERS, inflight, request, response>>

(***************************************************************************)
(* Bounds of the model.                                                    *)
(***************************************************************************)
\* seat numbers 1..MaxSeat are requested, besides one beyond every capacity
MaxSeat == 1
\* failed validation attempts counted per session before the model stops
MaxAttempts == 2

(***************************************************************************)
(* Static data.                                                            *)
(***************************************************************************)
ALLOWED_PHONE_NUMBERS == {"7358174456", "7358174457"}

\* a well-formed (10 character) phone number that is not on the allow-list
NewPhone == "9000000001"

\* the callers: one allow-listed phone number and one that is not
Phones == {"7358174456", NewPhone}

\* list(range(a, b))
Range(a, b) == [i \in 1..(b - a) |-> a + i - 1]

InitialCustomers ==
    [p \in ALLOWED_PHONE_NUMBERS |->
        IF p = "7358174456"
        THEN [name |-> "John Doe", email |-> "john@example.com"]
        ELSE [name |-> "Jane Smith", email |-> "jane@example.com"]]

\* iteration order of the ROUTES dictionary (insertion order)
RouteKeys == <<"Bangalore-Chennai", "Chennai-Hyderabad">>

InitialRoutes ==
    [r \in {RouteKeys[i] : i \in 1..Len(RouteKeys)} |->
        IF r = "Bangalore-Chennai"
        THEN << [bus_id |-> "CB1001", start_time |-> "09:00 AM",
                 available_seats |-> Range(1, 11)],
                [bus_id |-> "CB1002", start_time |-> "02:00 PM",
                 available_seats |-> Range(1, 6)] >>
        ELSE << [bus_id |-> "CH2001", start_time |-> "08:30 AM",
                 available_seats |-> Range(1, 8)],
                [bus_id |-> "CH2002", start_time |-> "09:30 AM",
                 available_seats |-> Range(1, 8)] >>]

\* every (route, index) position of a bus, in the order select_seat visits them
BusPositions ==
    UNION {{<<r, i>> : i \in 1..Len(InitialRoutes[r])} : r \in DOMAIN InitialRoutes}

\* capacity of a bus: the initial length of its available_seats
Capacity(pos) == Len(InitialRoutes[pos[1]][pos[2]].available_seats)

\* a seat number that passes conint(gt=0) and exceeds every bus's capacity
BeyondSeat ==
    1 + CHOOSE c \in {Capacity(pos) : pos \in BusPositions} :
            \A pos \in BusPositions : Capacity(pos) <= c

(***************************************************************************)
(* Inputs of the handlers (schema-valid request bodies).                   *)
(***************************************************************************)
BusIdInputs == {"CB1002", "CH2001", "XX0000"}

SeatInputs == (1..MaxSeat) \cup {BeyondSeat}

\* names given when registering a customer
Names == {"Asha", "Ravi"}

\* names given to validate_customer: one differs from a stored name in case only
CustomerNameInputs == {"JOHN DOE", "Asha"}

\* str.lower() on the names in use
Lower(n) ==
    CASE n \in {"John Doe", "JOHN DOE"} -> "john doe"
      [] n = "Jane Smith" -> "jane smith"
      [] n = "Asha" -> "asha"
      [] n = "Ravi" -> "ravi"
      [] OTHER -> n

\* names given in passenger details
PassengerNames == {"Asha"}

RouteInputs == {<<"Bangalore", "Chennai">>, <<"Chennai", "Mumbai">>}

ConfirmationNumbers == {100000, 999999}

PassengerDetails(p, n) ==
    [phone_number |-> p, name |-> n, age |-> 30, gender |-> "F",
     email |-> "p@example.com"]

(***************************************************************************)
(* Dictionary and list helpers.                                            *)
(***************************************************************************)
\* d[k] = v on a dictionary: adds the key or overwrites its value
DictSet(d, k, v) == [x \in DOMAIN d \cup {k} |-> IF x = k THEN v ELSE d[x]]

\* d.get(k): <<>> stands for None, <<v>> for a value v
None == <<>>

DictGet(d, k) == IF k \in DOMAIN d THEN <<d[k]>> ELSE None

\* x in s, for a list s
ListContains(s, x) == \E i \in 1..Len(s) : s[i] = x

\* mutant: s.pop() in place of s.remove(x)
ListRemove_Pop(s, x) == SubSeq(s, 1, Len(s) - 1)

\* s.remove(x) where x is in s: drops the first occurrence
ListRemove(s, x) ==
    LET i == CHOOSE j \in 1..Len(s) :
                 s[j] = x /\ \A h \in 1..(j - 1) : s[h] # x
    IN  SubSeq(s, 1, i - 1) \o SubSeq(s, i + 1, Len(s))

\* mutant: only the presence of a session is tested, not its 'validated' flag
NotValidated_NoSession(p) ==
    \/ p \notin DOMAIN SESSIONS
    \/ DOMAIN SESSIONS[p] = {}

\* "not session or not session.get('validated')" for SESSIONS.get(p)
NotValidated(p) ==
    \/ p \notin DOMAIN SESSIONS
    \/ DOMAIN SESSIONS[p] = {}
    \/ "validated" \notin DOMAIN SESSIONS[p]
    \/ ~SESSIONS[p]["validated"]

Forbidden == [status |-> 403, detail |-> "Phone number not validated."]

\* an exception no handler catches: the framework answers 500
Unhandled(e) == [status |-> 500, error |-> e]

Ok(body) == [status |-> 200, body |-> body]

(***************************************************************************)
(* Construction.                                                           *)
(***************************************************************************)
Init ==
    /\ SESSIONS = <<>>
    /\ ROUTES = InitialRoutes
    /\ ALLOWED_CUSTOMERS = InitialCustomers
    /\ inflight = <<>>
    /\ request = [op |-> "startup"]
    /\ response = Ok([message |-> ""])

(***************************************************************************)
(* GET /welcome/                                                           *)
(***************************************************************************)
welcome ==
    /\ request' = [op |-> "welcome"]
    /\ response' = Ok([message |->
          "Welcome to Smartbots Bus Booking Service! Let's start your booking."])
    /\ UNCHANGED <<SESSIONS, ROUTES, ALLOWED_CUSTOMERS, inflight>>

(***************************************************************************)
(* POST /validate-phone/                                                   *)
(***************************************************************************)
\* mutant: the comparison of line 101 written as > 2
AttemptsExhausted_Late(n) == n > 2

\* session["attempts"] >= 2
AttemptsExhausted(n) == n >= 2

\* mutant: SESSIONS[p] = {...} in place of SESSIONS.setdefault(p, {...})
SetDefault_Overwrite(p) ==
    DictSet(SESSIONS, p, [attempts |-> 0, validated |-> FALSE])

\* SESSIONS.setdefault(p, {"attempts": 0, "validated": False})
SetDefault(p) ==
    IF p \in DOMAIN SESSIONS THEN SESSIONS
    ELSE DictSet(SESSIONS, p, [attempts |-> 0, validated |-> FALSE])

validate_phone_number(p) ==
    LET S0 == SetDefault(p)
        session == S0[p]
    IN  /\ request' = [op |-> "validate_phone_number", phone_number |-> p]
        /\ UNCHANGED <<ROUTES, ALLOWED_CUSTOMERS, inflight>>
        /\ IF p \in ALLOWED_PHONE_NUMBERS
           THEN /\ SESSIONS' = DictSet(S0, p,
                       DictSet(DictSet(session, "validated", TRUE), "attempts", 0))
                /\ response' = Ok([message |-> "Phone number is valid.",
                                   customer |-> IF p \in DOMAIN ALLOWED_CUSTOMERS
                                                THEN ALLOWED_CUSTOMERS[p]
                                                ELSE <<>>])
           ELSE IF "attempts" \notin DOMAIN session
           THEN \* session["attempts"] += 1 raises KeyError
                /\ SESSIONS' = S0
                /\ response' = Unhandled("KeyError")
           ELSE /\ session["attempts"] < MaxAttempts
                /\ SESSIONS' = DictSet(S0, p,
                       DictSet(session, "attempts", session["attempts"] + 1))
                /\ response' =
                     IF AttemptsExhausted(session["attempts"] + 1)
                     THEN Ok([message |-> "Phone number invalid. Booking process failed!"])
                     ELSE Ok([message |-> "Invalid phone number. Please try again."])

(***************************************************************************)
(* POST /register-customer/                                                *)
(***************************************************************************)
\* mutant: the test of line 127 left out, an existing customer is registered again
register_customer_Again(p, n) ==
    /\ request' = [op |-> "register_customer", phone_number |-> p, name |-> n]
    /\ UNCHANGED <<ROUTES, inflight>>
    /\ ALLOWED_CUSTOMERS' =
          DictSet(ALLOWED_CUSTOMERS, p, [name |-> n, email |-> "n@example.com"])
    /\ SESSIONS' = DictSet(SESSIONS, p, [validated |-> TRUE])
    /\ response' = Ok([message |-> "Customer registered successfully.",
                       customer |-> ALLOWED_CUSTOMERS'[p]])

register_customer(p, n) ==
    /\ request' = [op |-> "register_customer", phone_number |-> p, name |-> n]
    /\ UNCHANGED <<ROUTES, inflight>>
    /\ IF p \in DOMAIN ALLOWED_CUSTOMERS
       THEN /\ response' = Ok([message |-> "Customer already exists."])
            /\ UNCHANGED <<SESSIONS, ALLOWED_CUSTOMERS>>
       ELSE /\ ALLOWED_CUSTOMERS' =
                 DictSet(ALLOWED_CUSTOMERS, p, [name |-> n, email |-> "n@example.com"])
            /\ SESSIONS' = DictSet(SESSIONS, p, [validated |-> TRUE])
            /\ response' = Ok([message |-> "Customer registered successfully.",
                               customer |-> ALLOWED_CUSTOMERS'[p]])

(***************************************************************************)
(* POST /search-buses/                                                     *)
(***************************************************************************)
\* mutant: the buses are answered as they were at start-up
search_buses_Stale(p, src, dst) ==
    /\ request' = [op |-> "search_buses", phone_number |-> p,
                   source |-> src, destination |-> dst]
    /\ UNCHANGED <<SESSIONS, ROUTES, ALLOWED_CUSTOMERS, inflight>>
    /\ IF NotValidated(p)
       THEN response' = Forbidden
       ELSE LET key == src \o "-" \o dst
            IN  IF key \notin DOMAIN ROUTES
                THEN response' = Ok([message |->
                        "No buses found for this route. Please try again."])
                ELSE response' = Ok([available_buses |-> InitialRoutes[key]])

search_buses(p, src, dst) ==
    /\ request' = [op |-> "search_buses", phone_number |-> p,
                   source |-> src, destination |-> dst]
    /\ UNCHANGED <<SESSIONS, ROUTES, ALLOWED_CUSTOMERS, inflight>>
    /\ IF NotValidated(p)
       THEN response' = Forbidden
       ELSE LET key == src \o "-" \o dst
            IN  IF key \notin DOMAIN ROUTES
                THEN response' = Ok([message |->
                        "No buses found for this route. Please try again."])
                ELSE response' = Ok([available_buses |-> ROUTES[key]])

(***************************************************************************)
(* POST /validate-customer/                                                *)
(***************************************************************************)
validate_customer(p, n) ==
    /\ request' = [op |-> "validate_customer", phone_number |-> p, name |-> n]
    /\ UNCHANGED <<SESSIONS, ROUTES, ALLOWED_CUSTOMERS, inflight>>
    /\ IF NotValidated(p)
       THEN response' = Forbidden
       ELSE IF p \in DOMAIN ALLOWED_CUSTOMERS /\ Lower(ALLOWED_CUSTOMERS[p].name) = Lower(n)
       THEN response' = Ok([message |-> "Customer validated successfully.",
                            customer |-> ALLOWED_CUSTOMERS[p]])
       ELSE response' = Ok([message |->
              "Customer not found. Please register with name, email, and phone number."])

(***************************************************************************)
(* POST /select-seat/                                                      *)
(***************************************************************************)
\* the (route, index) positions in the order the two for-loops visit them
RECURSIVE VisitFrom(_)
VisitFrom(n) ==
    IF n > Len(RouteKeys) THEN <<>>
    ELSE [i \in 1..Len(ROUTES[RouteKeys[n]]) |-> <<RouteKeys[n], i>>]
         \o VisitFrom(n + 1)

VisitOrder == VisitFrom(1)

BusAt(pos) == ROUTES[pos[1]][pos[2]]

\* mutant: the comparison of line 167 dropped, the first bus visited is taken
FindBus_First(b) == <<VisitOrder[1]>>

\* the first bus visited whose bus_id is b: <<pos>>, or <<>> when the loops run out

FindBus(b) ==
    LET hits == {j \in 1..Len(VisitOrder) : BusAt(VisitOrder[j]).bus_id = b}
    IN  IF hits = {} THEN <<>>
        ELSE <<VisitOrder[CHOOSE j \in hits : \A h \in hits : j <= h]>>

SeatBooked(b, k) ==
    Ok([message |-> "Seat booked temporarily.", bus_id |-> b, seat_number |-> k])

SeatNotAvailable ==
    Ok([message |-> "Seat not available. Please select another seat."])

BusNotFound == Ok([message |-> "Bus not found."])

\* mutant: the seat is recorded on the session and left in available_seats
TakeSeat_NoRemove(p, pos, b, k) ==
    /\ ROUTES' = ROUTES
    /\ SESSIONS' = DictSet(SESSIONS, p,
                       DictSet(DictSet(SESSIONS[p], "seat", k), "bus_id", b))

\* mutant: line 171 left out, the bus is not recorded on the session
TakeSeat_NoBusId(p, pos, b, k) ==
    /\ ROUTES' = [ROUTES EXCEPT
                     ![pos[1]][pos[2]].available_seats = ListRemove(@, k)]
    /\ SESSIONS' = DictSet(SESSIONS, p, DictSet(SESSIONS[p], "seat", k))

\* mutant: the seat the session held before goes back to its bus
TakeSeat_ReleaseOld(p, pos, b, k) ==
    LET removed == [ROUTES EXCEPT
                      ![pos[1]][pos[2]].available_seats = ListRemove(@, k)]
        s   == SESSIONS[p]
        old == IF "seat" \in DOMAIN s /\ FindBus(s["bus_id"]) # <<>>
               THEN <<FindBus(s["bus_id"])[1], s["seat"]>>
               ELSE <<>>
    IN  /\ ROUTES' = IF old = <<>> THEN removed
                     ELSE [removed EXCEPT
                             ![old[1][1]][old[1][2]].available_seats =
                                 Append(@, old[2])]
        /\ SESSIONS' = DictSet(SESSIONS, p,
                           DictSet(DictSet(s, "seat", k), "bus_id", b))

\* lines 169-171: the removal and the two writes to the session
TakeSeat(p, pos, b, k) ==
    /\ ROUTES' = [ROUTES EXCEPT
                     ![pos[1]][pos[2]].available_seats = ListRemove(@, k)]
    /\ SESSIONS' = DictSet(SESSIONS, p,
                       DictSet(DictSet(SESSIONS[p], "seat", k), "bus_id", b))

SelectSeatRequest(p, b, k) ==
    [op |-> "select_seat", phone_number |-> p, bus_id |-> b, seat_number |-> k]

\* the handler run from its first line to its return, uninterrupted
select_seat(p, b, k) ==
    /\ request' = SelectSeatRequest(p, b, k)
    /\ UNCHANGED <<ALLOWED_CUSTOMERS, inflight>>
    /\ IF NotValidated(p)
       THEN /\ response' = Forbidden
            /\ UNCHANGED <<SESSIONS, ROUTES>>
       ELSE IF FindBus(b) = <<>>
       THEN /\ response' = BusNotFound
            /\ UNCHANGED <<SESSIONS, ROUTES>>
       ELSE LET pos == FindBus(b)[1]
            IN  IF ListContains(BusAt(pos).available_seats, k)
                THEN /\ TakeSeat(p, pos, b, k)
                     /\ response' = SeatBooked(b, k)
                ELSE /\ response' = SeatNotAvailable
                     /\ UNCHANGED <<SESSIONS, ROUTES>>

(***************************************************************************)
(* POST /enter-passenger/                                                  *)
(***************************************************************************)
enter_passenger(p, n) ==
    /\ request' = [op |-> "enter_passenger", phone_number |-> p, name |-> n]
    /\ UNCHANGED <<ROUTES, ALLOWED_CUSTOMERS, inflight>>
    /\ IF NotValidated(p)
       THEN /\ response' = Forbidden
            /\ UNCHANGED SESSIONS
       ELSE /\ SESSIONS' = DictSet(SESSIONS, p,
                   DictSet(SESSIONS[p], "passenger", PassengerDetails(p, n)))
            /\ response' = Ok([message |-> "Passenger details recorded.",
                               passenger |-> PassengerDetails(p, n)])

(***************************************************************************)
(* POST /make-payment/                                                     *)
(***************************************************************************)
\* mutant: the payment is recorded on the session
make_payment_Records(p, c) ==
    /\ request' = [op |-> "make_payment", phone_number |-> p]
    /\ UNCHANGED <<ROUTES, ALLOWED_CUSTOMERS, inflight>>
    /\ IF NotValidated(p)
       THEN /\ response' = Forbidden
            /\ UNCHANGED SESSIONS
       ELSE /\ SESSIONS' = DictSet(SESSIONS, p, DictSet(SESSIONS[p], "paid", TRUE))
            /\ response' =
                 Ok([message |-> "Payment successful! Your bus ticket is confirmed.",
                     amount_paid |-> 250,
                     confirmation_number |-> c,
                     ticket_status |-> "CONFIRMED",
                     passenger |-> DictGet(SESSIONS[p], "passenger"),
                     bus_id |-> DictGet(SESSIONS[p], "bus_id"),
                     seat_number |-> DictGet(SESSIONS[p], "seat")])

make_payment(p, c) ==
    /\ request' = [op |-> "make_payment", phone_number |-> p]
    /\ UNCHANGED <<SESSIONS, ROUTES, ALLOWED_CUSTOMERS, inflight>>
    /\ IF NotValidated(p)
       THEN response' = Forbidden
       ELSE response' =
              Ok([message |-> "Payment successful! Your bus ticket is confirmed.",
                  amount_paid |-> 250,
                  confirmation_number |-> c,
                  ticket_status |-> "CONFIRMED",
                  passenger |-> DictGet(SESSIONS[p], "passenger"),
                  bus_id |-> DictGet(SESSIONS[p], "bus_id"),
                  seat_number |-> DictGet(SESSIONS[p], "seat")])

(***************************************************************************)
(* The handlers called one after another.                                  *)
(***************************************************************************)
Next ==
    \/ welcome
    \/ \E p \in Phones : validate_phone_number(p)
    \/ \E p \in Phones, n \in CustomerNameInputs : validate_customer(p, n)
    \/ \E p \in Phones, n \in Names : register_customer(p, n)
    \/ \E p \in Phones, r \in RouteInputs : search_buses(p, r[1], r[2])
    \/ \E p \in Phones, b \in BusIdInputs, k \in SeatInputs : select_seat(p, b, k)
    \/ \E p \in Phones, n \in PassengerNames : enter_passenger(p, n)
    \/ \E p \in Phones, c \in ConfirmationNumbers : make_payment(p, c)

Spec == Init /\ [][Next]_vars

(***************************************************************************)
(* select_seat served by concurrent worker threads: the membership test of *)
(* line 168 and the removal of line 169 are separate steps, and another    *)
(* request's steps may run between them.  inflight[p] is the request of    *)
(* caller p that has passed the test and not yet run the removal.          *)
(***************************************************************************)
select_seat_test(p, b, k) ==
    /\ p \notin DOMAIN inflight
    /\ UNCHANGED <<SESSIONS, ROUTES, ALLOWED_CUSTOMERS>>
    /\ IF NotValidated(p)
       THEN /\ request' = SelectSeatRequest(p, b, k)
            /\ response' = Forbidden
            /\ UNCHANGED inflight
       ELSE IF FindBus(b) = <<>>
       THEN /\ request' = SelectSeatRequest(p, b, k)
            /\ response' = BusNotFound
            /\ UNCHANGED inflight
       ELSE LET pos == FindBus(b)[1]
            IN  IF ListContains(BusAt(pos).available_seats, k)
                THEN /\ inflight' = DictSet(inflight, p,
                            [bus_id |-> b, seat_number |-> k, pos |-> pos])
                     /\ UNCHANGED <<request, response>>
                ELSE /\ request' = SelectSeatRequest(p, b, k)
                     /\ response' = SeatNotAvailable
                     /\ UNCHANGED inflight

select_seat_remove(p) ==
    /\ p \in DOMAIN inflight
    /\ LET call == inflight[p]
       IN  /\ request' = SelectSeatRequest(p, call.bus_id, call.seat_number)
           /\ inflight' = [q \in DOMAIN inflight \ {p} |-> inflight[q]]
           /\ UNCHANGED ALLOWED_CUSTOMERS
           /\ IF ListContains(BusAt(call.pos).available_seats, call.seat_number)
              THEN /\ TakeSeat(p, call.pos, call.bus_id, call.seat_number)
                   /\ response' = SeatBooked(call.bus_id, call.seat_number)
              ELSE \* list.remove(x) raises ValueError: x not in list
                   /\ response' = Unhandled("ValueError")
                   /\ UNCHANGED <<SESSIONS, ROUTES>>

NextConcurrent ==
    \/ welcome
    \/ \E p \in Phones : validate_phone_number(p)
    \/ \E p \in Phones, n \in CustomerNameInputs : validate_customer(p, n)
    \/ \E p \in Phones, n \in Names : register_customer(p, n)
    \/ \E p \in Phones, r \in RouteInputs : search_buses(p, r[1], r[2])
    \/ \E p \in Phones, n \in PassengerNames : enter_passenger(p, n)
    \/ \E p \in Phones, c \in ConfirmationNumbers : make_payment(p, c)
    \/ \E p \in Phones, b \in BusIdInputs, k \in SeatInputs : select_seat_test(p, b, k)
    \/ \E p \in Phones : select_seat_remove(p)

SpecConcurrent == Init /\ [][NextConcurrent]_vars

(***************************************************************************)
(* Vocabulary of the properties.                                           *)
(***************************************************************************)
\* the dictionary of sessions S has a session for p whose 'validated' is True
ValidatedIn(S, p) ==
    /\ p \in DOMAIN S
    /\ "validated" \in DOMAIN S[p]
    /\ S[p]["validated"]

Validated(p) == ValidatedIn(SESSIONS, p)

\* the seat numbers in the available_seats of the bus at pos, in the routes R
SeatsOf(R, pos) ==
    {R[pos[1]][pos[2]].available_seats[i] :
        i \in 1..Len(R[pos[1]][pos[2]].available_seats)}

\* session p has a seat and a bus recorded
HasSeat(p) ==
    /\ p \in DOMAIN SESSIONS
    /\ "seat" \in DOMAIN SESSIONS[p]
    /\ "bus_id" \in DOMAIN SESSIONS[p]

Held(p) == <<SESSIONS[p]["bus_id"], SESSIONS[p]["seat"]>>

HasPassenger(p) == p \in DOMAIN SESSIONS /\ "passenger" \in DOMAIN SESSIONS[p]

\* some session other than p has (b, k) recorded
HeldByOther(p, b, k) ==
    \E q \in DOMAIN SESSIONS : q # p /\ HasSeat(q) /\ Held(q) = <<b, k>>

\* ROUTES lists a bus with this id (bus ids are unique in ROUTES)
BusExists(b) == \E pos \in BusPositions : BusAt(pos).bus_id = b

PositionOf(b) == CHOOSE pos \in BusPositions : BusAt(pos).bus_id = b

InRange(b, k) == BusExists(b) /\ k \in 1..Capacity(PositionOf(b))

Available(b, k) ==
    /\ BusExists(b)
    /\ \E i \in DOMAIN BusAt(PositionOf(b)).available_seats :
           BusAt(PositionOf(b)).available_seats[i] = k

\* the seat is one of the bus's seats and is no longer in available_seats
Taken(b, k) == InRange(b, k) /\ ~Available(b, k)

IsSelectSeat(r) == r.op = "select_seat"

Succeeded(r) == r.status = 200

\* the last call was this operation and was answered with status 200
Answered200(op) == request.op = op /\ response.status = 200

(***************************************************************************)
(* C1.  No two distinct sessions have the same (bus_id, seat) pair         *)
(* recorded, in any state reached by calling the handlers one after        *)
(* another.                                                                *)
(***************************************************************************)
C1_NoDoubleBooking ==
    \A p, q \in DOMAIN SESSIONS :
        (p # q /\ HasSeat(p) /\ HasSeat(q)) => Held(p) # Held(q)

\* a session that holds a seat has just asked for the seat another one holds
C1_Witness ==
    /\ IsSelectSeat(request)
    /\ HasSeat(request.phone_number)
    /\ HeldByOther(request.phone_number, request.bus_id, request.seat_number)

(***************************************************************************)
(* C2.  For every bus, available_seats has no duplicates, is disjoint from *)
(* the seats sessions hold on that bus, and together with them is exactly  *)
(* 1..capacity.                                                            *)
(***************************************************************************)
HeldSeats(b) == {SESSIONS[p]["seat"] : p \in {q \in DOMAIN SESSIONS :
                                                HasSeat(q) /\ Held(q)[1] = b}}

C2_SeatPartition ==
    \A pos \in BusPositions :
        LET avail == BusAt(pos).available_seats
            free  == {avail[i] : i \in 1..Len(avail)}
            held  == HeldSeats(BusAt(pos).bus_id)
        IN  /\ Cardinality(free) = Len(avail)
            /\ free \cap held = {}
            /\ free \cup held = 1..Capacity(pos)

(***************************************************************************)
(* C3.  make_payment answers CONFIRMED only for a session that has a seat  *)
(* and a passenger recorded (a validated session keeps what it recorded,   *)
(* so one without them never completed those steps).                       *)
(***************************************************************************)
C3_PaymentAfterSeatAndPassenger ==
    (Answered200("make_payment") /\ response.body.ticket_status = "CONFIRMED")
        => (HasSeat(request.phone_number) /\ HasPassenger(request.phone_number))

(***************************************************************************)
(* C4.  enter_passenger records the passenger only on a session that holds *)
(* a seat; on a session without a seat it is rejected and no passenger is  *)
(* recorded.                                                               *)
(***************************************************************************)
C4_PassengerNeedsSeat ==
    request.op = "enter_passenger" =>
        /\ Succeeded(response) => HasSeat(request.phone_number)
        /\ ~HasSeat(request.phone_number) => ~HasPassenger(request.phone_number)

(***************************************************************************)
(* C5.  Once make_payment has succeeded for a session, a following         *)
(* select_seat, enter_passenger or make_payment call on that session does  *)
(* not succeed and does not change the session.                            *)
(***************************************************************************)
C5_PaidIsTerminal ==
    [][(/\ Answered200("make_payment")
        /\ request'.op \in {"select_seat", "enter_passenger", "make_payment"}
        /\ request'.phone_number = request.phone_number)
       => (/\ ~Succeeded(response')
           /\ SESSIONS' = SESSIONS
           /\ ROUTES' = ROUTES)]_vars

(***************************************************************************)
(* C6.  No handler call ends in an exception that nothing catches.         *)
(***************************************************************************)
C6_NoUnhandledError == response.status # 500

(***************************************************************************)
(* C7.  With the membership test and the removal of select_seat as         *)
(* separate steps, no two sessions end up with the same (bus_id, seat),    *)
(* and every select_seat call ends with one of the handler's defined       *)
(* answers.                                                                *)
(***************************************************************************)
C7_ConcurrentSelectSeat ==
    /\ \A p, q \in DOMAIN SESSIONS :
           (p # q /\ HasSeat(p) /\ HasSeat(q)) => Held(p) # Held(q)
    /\ IsSelectSeat(request) =>
           response \in {Forbidden, BusNotFound, SeatNotAvailable,
                         SeatBooked(request.bus_id, request.seat_number)}

(***************************************************************************)
(* C8.  As stated: whenever a session holds (b, k), a select_seat for      *)
(* (b, k) issued by any other session is answered with the                 *)
(* seat-unavailable message and changes neither the sessions nor the       *)
(* seats.                                                                  *)
(***************************************************************************)
C8_HoldExclusive_AnySession ==
    [][(/\ IsSelectSeat(request')
        /\ request'.phone_number \in DOMAIN SESSIONS
        /\ HeldByOther(request'.phone_number, request'.bus_id, request'.seat_number))
       => (/\ response' = SeatNotAvailable
           /\ SESSIONS' = SESSIONS
           /\ ROUTES' = ROUTES)]_vars

(***************************************************************************)
(* C8, amended.  Whenever another session holds (b, k), or (b, k) was      *)
(* taken earlier and is not the caller's own seat, a select_seat for       *)
(* (b, k) issued by a validated session is answered with the               *)
(* seat-unavailable message and changes neither the sessions nor the       *)
(* seats.                                                                  *)
(***************************************************************************)
C8_HoldExclusive ==
    [][(/\ IsSelectSeat(request')
        /\ Validated(request'.phone_number)
        /\ LET p == request'.phone_number
               b == request'.bus_id
               k == request'.seat_number
           IN  \/ HeldByOther(p, b, k)
               \/ Taken(b, k) /\ ~(HasSeat(p) /\ Held(p) = <<b, k>>))
       => (/\ response' = SeatNotAvailable
           /\ SESSIONS' = SESSIONS
           /\ ROUTES' = ROUTES)]_vars

\* a validated session has just been refused the seat another session holds
C8_Witness ==
    /\ IsSelectSeat(request)
    /\ Validated(request.phone_number)
    /\ HeldByOther(request.phone_number, request.bus_id, request.seat_number)
    /\ response = SeatNotAvailable

(***************************************************************************)
(* C9.  A select_seat from a validated session for a seat in the range of  *)
(* an existing bus fails exactly when another session holds the seat;      *)
(* otherwise it succeeds and records the seat on the calling session.      *)
(***************************************************************************)
C9_FailsOnlyIfHeldByOther ==
    [][(/\ IsSelectSeat(request')
        /\ Validated(request'.phone_number)
        /\ InRange(request'.bus_id, request'.seat_number))
       => LET p == request'.phone_number
              b == request'.bus_id
              k == request'.seat_number
          IN  IF HeldByOther(p, b, k)
              THEN response' = SeatNotAvailable
              ELSE /\ response' = SeatBooked(b, k)
                   /\ SESSIONS'[p]["seat"] = k
                   /\ SESSIONS'[p]["bus_id"] = b]_vars

C11_SeatsOnlyShrink ==
    [][\A pos \in BusPositions : SeatsOf(ROUTES', pos) \subseteq SeatsOf(ROUTES, pos)]_vars

\* a seat was taken, its holder has since selected another seat, and a later
\* call of another handler has been served: the seat is still not available
C11_Witness ==
    /\ request.op \in {"enter_passenger", "make_payment", "validate_phone_number",
                       "register_customer"}
    /\ \E b \in BusIdInputs, k \in SeatInputs :
          /\ Taken(b, k)
          /\ \A q \in DOMAIN SESSIONS : ~(HasSeat(q) /\ Held(q) = <<b, k>>)

(***************************************************************************)
(* C12.  As stated: a session is validated only if its phone number is in  *)
(* ALLOWED_PHONE_NUMBERS (so a gated call from any other phone number is   *)
(* rejected).                                                              *)
(***************************************************************************)
C12_ValidatedOnlyIfAllowListed ==
    \A p \in DOMAIN SESSIONS : Validated(p) => p \in ALLOWED_PHONE_NUMBERS

GatedOps == {"search_buses", "select_seat", "enter_passenger", "make_payment"}

(***************************************************************************)
(* C12, amended.  search_buses, select_seat, enter_passenger and           *)
(* make_payment are rejected with 403 'Phone number not validated.', all   *)
(* sessions, seats and customers unchanged, whenever the caller's session  *)
(* is not validated; and a session is validated only if its phone number   *)
(* is in ALLOWED_PHONE_NUMBERS or has been registered (is a key of         *)
(* ALLOWED_CUSTOMERS).                                                     *)
(***************************************************************************)
C12_GateRejectsUnvalidated ==
    /\ [](\A p \in DOMAIN SESSIONS :
             Validated(p) => (p \in ALLOWED_PHONE_NUMBERS \/ p \in DOMAIN ALLOWED_CUSTOMERS))
    /\ [][(request'.op \in GatedOps /\ ~Validated(request'.phone_number))
          => (/\ response' = Forbidden
              /\ SESSIONS' = SESSIONS
              /\ ROUTES' = ROUTES
              /\ ALLOWED_CUSTOMERS' = ALLOWED_CUSTOMERS)]_vars

\* a phone number off the allow-list, with a session from a failed validation,
\* has just been rejected by a gated handler
C12_Witness ==
    /\ request.op \in GatedOps
    /\ request.phone_number \notin ALLOWED_PHONE_NUMBERS
    /\ request.phone_number \in DOMAIN SESSIONS
    /\ response = Forbidden

(***************************************************************************)
(* C13.  A search_buses call (answered with buses, with no buses found, or *)
(* rejected with 403) and a welcome call change no session, no seat and no *)
(* customer; the buses a successful search_buses answers are the buses of  *)
(* the route asked for, each with exactly the seats available on it at the *)
(* time of the call.                                                       *)
(***************************************************************************)
C13_ReadsDoNotMutate ==
    [][(request'.op \in {"search_buses", "welcome"})
       => /\ SESSIONS' = SESSIONS
          /\ ROUTES' = ROUTES
          /\ ALLOWED_CUSTOMERS' = ALLOWED_CUSTOMERS
          /\ (request'.op = "search_buses" /\ Validated(request'.phone_number))
                => LET key == request'.source \o "-" \o request'.destination
                   IN  IF key \in DOMAIN InitialRoutes
                       THEN LET buses == response'.body.available_buses
                            IN  /\ Len(buses) = Len(InitialRoutes[key])
                                /\ \A i \in 1..Len(buses) :
                                      /\ buses[i].bus_id = InitialRoutes[key][i].bus_id
                                      /\ \A k \in 1..BeyondSeat :
                                            ListContains(buses[i].available_seats, k)
                                               <=> Available(buses[i].bus_id, k)
                       ELSE "available_buses" \notin DOMAIN response'.body
          /\ (request'.op = "search_buses" /\ ~Validated(request'.phone_number))
                => response' = Forbidden]_vars

\* a search has just listed a route on which a seat has been taken
C13_Witness ==
    /\ Answered200("search_buses")
    /\ "available_buses" \in DOMAIN response.body
    /\ \E i \in 1..Len(response.body.available_buses), k \in SeatInputs :
          Taken(response.body.available_buses[i].bus_id, k)

(***************************************************************************)
(* C14.  For a phone number that is not allow-listed and not registered,   *)
(* every validate_phone_number call adds one to the session's attempts     *)
(* (counted from 0 when there is no session) and no other call changes     *)
(* them; the call that makes them 1 is answered 'Invalid phone number.     *)
(* Please try again.' and every later one 'Phone number invalid. Booking   *)
(* process failed!'; the session is never validated.  For an allow-listed  *)
(* phone number every validate_phone_number call leaves the session        *)
(* validated with attempts 0.                                              *)
(***************************************************************************)
AttemptsOf(S, p) ==
    IF p \in DOMAIN S /\ "attempts" \in DOMAIN S[p] THEN S[p]["attempts"] ELSE 0

ValidatePhoneRequest(p) == [op |-> "validate_phone_number", phone_number |-> p]

C14_ValidationAttempts ==
    [][\A p \in Phones :
          /\ (p \notin ALLOWED_PHONE_NUMBERS /\ p \notin DOMAIN ALLOWED_CUSTOMERS')
                => /\ ~ValidatedIn(SESSIONS', p)
                   /\ IF request' = ValidatePhoneRequest(p)
                      THEN /\ AttemptsOf(SESSIONS', p) = AttemptsOf(SESSIONS, p) + 1
                           /\ response' =
                                IF AttemptsOf(SESSIONS, p) = 0
                                THEN Ok([message |-> "Invalid phone number. Please try again."])
                                ELSE Ok([message |-> "Phone number invalid. Booking process failed!"])
                      ELSE AttemptsOf(SESSIONS', p) = AttemptsOf(SESSIONS, p)
          /\ (p \in ALLOWED_PHONE_NUMBERS /\ request' = ValidatePhoneRequest(p))
                => /\ ValidatedIn(SESSIONS', p)
                   /\ "attempts" \in DOMAIN SESSIONS'[p]
                   /\ SESSIONS'[p]["attempts"] = 0
                   /\ Succeeded(response')
                   /\ response'.body.message = "Phone number is valid."]_vars

\* the second validation of a phone number that is neither allow-listed nor registered
C14_Witness ==
    /\ request = ValidatePhoneRequest(NewPhone)
    /\ NewPhone \notin DOMAIN ALLOWED_CUSTOMERS
    /\ AttemptsOf(SESSIONS, NewPhone) = 2
    /\ response = Ok([message |-> "Phone number invalid. Booking process failed!"])

C16_PaymentIsPureRead ==
    [][(request'.op = "make_payment" /\ Validated(request'.phone_number))
       => LET session == SESSIONS[request'.phone_number]
          IN  /\ SESSIONS' = SESSIONS
              /\ ROUTES' = ROUTES
              /\ ALLOWED_CUSTOMERS' = ALLOWED_CUSTOMERS
              /\ Succeeded(response')
              /\ response'.body.ticket_status = "CONFIRMED"
              /\ response'.body.confirmation_number \in 100000..999999
              /\ response'.body.passenger =
                    IF "passenger" \in DOMAIN session THEN <<session["passenger"]>> ELSE None
              /\ response'.body.bus_id =
                    IF "bus_id" \in DOMAIN session THEN <<session["bus_id"]>> ELSE None
              /\ response'.body.seat_number =
                    IF "seat" \in DOMAIN session THEN <<session["seat"]>> ELSE None]_vars

\* a payment has just been confirmed for a session with a seat and no passenger
C16_Witness ==
    /\ Answered200("make_payment")
    /\ response.body.ticket_status = "CONFIRMED"
    /\ response.body.seat_number # None
    /\ response.body.passenger = None

(***************************************************************************)
(* C17.  A session that is validated is validated after every step: no     *)
(* call resets the flag or removes the session.                            *)
(***************************************************************************)
C17_ValidationMonotonic ==
    [][\A p \in Phones : Validated(p) => ValidatedIn(SESSIONS', p)]_vars

\* a validated session whose phone number has just failed validate_phone_number
C17_Witness ==
    /\ request = ValidatePhoneRequest(NewPhone)
    /\ ~Succeeded(response)
    /\ Validated(NewPhone)

(***************************************************************************)
(* C18.  register_customer for a phone number that is a key of             *)
(* ALLOWED_CUSTOMERS answers 'Customer already exists.' and changes        *)
(* nothing; for a new phone number it adds that one customer record and    *)
(* sets the phone's session to {validated: True}, leaving the other        *)
(* sessions and the seats alone, and the session it replaces, if any, was  *)
(* not validated and had no seat, bus_id or passenger.  No step changes or *)
(* removes a customer record.                                              *)
(***************************************************************************)
C18_RegisterOnce ==
    [][/\ \A q \in DOMAIN ALLOWED_CUSTOMERS :
             q \in DOMAIN ALLOWED_CUSTOMERS' /\ ALLOWED_CUSTOMERS'[q] = ALLOWED_CUSTOMERS[q]
       /\ request'.op = "register_customer"
             => LET p == request'.phone_number
                IN  IF p \in DOMAIN ALLOWED_CUSTOMERS
                    THEN /\ response' = Ok([message |-> "Customer already exists."])
                         /\ SESSIONS' = SESSIONS
                         /\ ROUTES' = ROUTES
                         /\ ALLOWED_CUSTOMERS' = ALLOWED_CUSTOMERS
                    ELSE /\ DOMAIN ALLOWED_CUSTOMERS' = DOMAIN ALLOWED_CUSTOMERS \cup {p}
                         /\ ALLOWED_CUSTOMERS'[p].name = request'.name
                         /\ Succeeded(response')
                         /\ response'.body.message = "Customer registered successfully."
                         /\ DOMAIN SESSIONS' = DOMAIN SESSIONS \cup {p}
                         /\ SESSIONS'[p] = [validated |-> TRUE]
                         /\ \A q \in DOMAIN SESSIONS \ {p} : SESSIONS'[q] = SESSIONS[q]
                         /\ ROUTES' = ROUTES
                         /\ ~Validated(p)
                         /\ p \in DOMAIN SESSIONS =>
                               DOMAIN SESSIONS[p] \cap {"seat", "bus_id", "passenger"} = {}]_vars

\* a registered customer who holds a seat has just been registered again under
\* another name
C18_Witness ==
    /\ request.op = "register_customer"
    /\ request.phone_number = NewPhone
    /\ response = Ok([message |-> "Customer already exists."])
    /\ ALLOWED_CUSTOMERS[NewPhone].name # request.name
    /\ HasSeat(NewPhone)

====
